---- MODULE Spec2Model ----
(***************************************************************************)
(* Abah Farm backend (server.js): the REST routes over six mongoose        *)
(* collections, the auth / adminAuth middleware and the admin dashboard.   *)
(* Every route handler is one action; a collection is a sequence indexed   *)
(* by the record's _id (ids are never reused), a removed record leaves     *)
(* NoRec in its slot.                                                      *)
(***************************************************************************)
EXTENDS Integers, Sequences, FiniteSets, TLC

VARIABLES users, products, orders, bookings, contacts, subscribers, issued, resp,
          pending

vars == <<users, products, orders, bookings, contacts, subscribers, issued, resp,
          pending>>
db == <<users, products, orders, bookings, contacts, subscribers>>

(* ------------------------------ bounds -------------------------------- *)
MaxUsers == 3
MaxProducts == 1
MaxOrders == 1
MaxBookings == 1
MaxContacts == 1
MaxDashOrders == 2
MaxRequests == 3

(* --------------------------- value domains ---------------------------- *)
Emails == {"admin@x.com", "a@x.com", "b@x.com"}
Passwords == {"pw1", "pw2"}
Names == {"ann"}
Salts == {"s1"}
Missing == "<undefined>"
NoRec == [live |-> FALSE]
Live(coll) == {i \in 1..Len(coll) : coll[i] # NoRec}

(* ------------------------------ schemas ------------------------------- *)
userSchema == [required |-> {"name", "email", "password"},
               defaults |-> [isAdmin |-> FALSE]]

(* bcrypt.hash(password, salt) / bcrypt.compare(password, hash): the hash  *)
(* binds the salt and the password, compare recomputes it from the salt    *)
(* stored in the hash.                                                     *)
bcryptHash(password, salt) == [salt |-> salt, digest |-> <<salt, password>>]
bcryptCompare(password, hash) == hash.digest = <<hash.salt, password>>

(* jwt.sign({userId}, secret, {expiresIn: '7d'}) and jwt.verify: a token   *)
(* verifies iff it carries the server's signature and has not expired.     *)
jwtSign(userId) == [userId |-> userId, sig |-> "server", expired |-> FALSE]
jwtVerifies(token) == token.sig = "server" /\ ~token.expired

NoHeader == [present |-> FALSE]
Bearer(token) == [present |-> TRUE, token |-> token]
(* The Authorization headers a client can send: none, a token it signed   *)
(* itself, a token the server issued that has expired since (jwt.verify    *)
(* rejects it before its userId is read, so one stands for all), or a      *)
(* token the server issued that is still valid.                            *)
Headers ==
    {NoHeader, Bearer([jwtSign(1) EXCEPT !.sig = "forged"])}
    \cup {Bearer([jwtSign(u) EXCEPT !.expired = TRUE]) :
            u \in {v \in issued : \A w \in issued : v <= w}}
    \cup {Bearer(jwtSign(u)) : u \in issued}
(* Where a request can meet a storage or runtime fault: in auth's          *)
(* User.findById (reached only with a verifiable token) or in the route    *)
(* handler's body.                                                         *)
Faults(header) ==
    IF header.present /\ jwtVerifies(header.token)
    THEN {"none", "auth", "body"} ELSE {"none"}
BodyFaults == {"none", "body"}

(* ------------------------------ responses ----------------------------- *)
(* resp is the last request handled and the response sent for it: req =    *)
(* the request and the fault it met, user = _id of req.user (0 when none   *)
(* was attached), ran = the route handler body was entered.                *)
Response(route, req, status, message, user, ran, out) ==
    [route |-> route, req |-> req, status |-> status, message |-> message,
     user |-> user, ran |-> ran, out |-> out]
NoOut == [none |-> TRUE]

(* ------------------------------ middleware ---------------------------- *)
(* auth as it would be without the null check on the stored User: the      *)
(* read of the missing document throws outside any 401 answer.             *)
authCrash(header, fault) ==
    IF ~header.present
    THEN [ok |-> FALSE, status |-> 401, message |-> "Authentication required", user |-> 0]
    ELSE IF ~jwtVerifies(header.token) \/ fault = "auth"
    THEN [ok |-> FALSE, status |-> 401, message |-> "Authentication failed", user |-> 0]
    ELSE IF header.token.userId \notin Live(users)
    THEN [ok |-> FALSE, status |-> 500, message |-> "Cannot read property of null",
          user |-> 0]
    ELSE [ok |-> TRUE, status |-> 200, message |-> "", user |-> header.token.userId]
(* adminAuth letting every authenticated User through.                     *)
adminAuthAnyUser(user) ==
    [ok |-> TRUE, status |-> 200, message |-> "", user |-> user]

(* auth: 401 unless the header carries a verifiable token whose userId     *)
(* resolves to a stored User; any throw (jwt.verify, findById) is 401.     *)
auth(header, fault) ==
    IF ~header.present
    THEN [ok |-> FALSE, status |-> 401, message |-> "Authentication required", user |-> 0]
    ELSE IF ~jwtVerifies(header.token) \/ fault = "auth"
    THEN [ok |-> FALSE, status |-> 401, message |-> "Authentication failed", user |-> 0]
    ELSE IF header.token.userId \notin Live(users)
    THEN [ok |-> FALSE, status |-> 401, message |-> "User not found", user |-> 0]
    ELSE [ok |-> TRUE, status |-> 200, message |-> "", user |-> header.token.userId]

(* adminAuth: next() iff req.user is set and req.user.isAdmin.             *)
adminAuth(user) ==
    IF user # 0 /\ users[user].isAdmin
    THEN [ok |-> TRUE, status |-> 200, message |-> "", user |-> user]
    ELSE [ok |-> FALSE, status |-> 403, message |-> "Admin access required", user |-> user]

(* The gates of a route run in order, the first failure answers.           *)
Gates(header, fault, admin) ==
    LET a == auth(header, fault)
    IN  IF ~a.ok THEN a ELSE IF admin THEN adminAuth(a.user) ELSE a

Denied(route, req, g) == Response(route, req, g.status, g.message, g.user, FALSE, NoOut)

(* ------------------------------- storage ------------------------------ *)
(* A findOne that never matches.                                           *)
FindByEmailNone(coll, email) == {}
(* Model.findOne({email}) *)
FindByEmail(coll, email) ==
    {i \in Live(coll) : coll[i].email = email}
PublicUser(id) ==
    [id |-> id, name |-> users[id].name, email |-> users[id].email,
     isAdmin |-> users[id].isAdmin]

(* ---------------------------- auth routes ----------------------------- *)
RegisterBodies ==
    [name : Names \cup {Missing}, email : Emails \cup {Missing},
     password : Passwords \cup {Missing}]

(* A User built from the whole request body.                               *)
NewUserOfBody(body, hashedPassword) ==
    [name |-> body.name, email |-> body.email, password |-> hashedPassword,
     isAdmin |-> IF "isAdmin" \in DOMAIN body THEN body.isAdmin
                 ELSE userSchema.defaults.isAdmin]
(* new User({ name, email, password: hashedPassword }): the three fields   *)
(* taken from the body, isAdmin left to the schema's default.              *)
NewUser(body, hashedPassword) ==
    [name |-> body.name, email |-> body.email, password |-> hashedPassword,
     isAdmin |-> userSchema.defaults.isAdmin]

(* POST /api/auth/register *)
Register(body, salt, fault) ==
    LET route == "POST /api/auth/register"
        req == [body |-> body, fault |-> fault]
        existing == FindByEmail(users, body.email)
        invalid == body.name = Missing \/ body.email = Missing
    IN  IF fault = "body"
        THEN /\ resp' = Response(route, req, 400, "storage fault", 0, TRUE, NoOut)
             /\ UNCHANGED <<db, issued>>
        ELSE IF existing # {}
        THEN /\ resp' = Response(route, req, 400, "User already exists", 0, TRUE, NoOut)
             /\ UNCHANGED <<db, issued>>
        ELSE IF body.password = Missing
        THEN /\ resp' = Response(route, req, 400, "Illegal arguments", 0, TRUE, NoOut)
             /\ UNCHANGED <<db, issued>>
        ELSE IF invalid
        THEN /\ resp' = Response(route, req, 400, "User validation failed", 0, TRUE, NoOut)
             /\ UNCHANGED <<db, issued>>
        ELSE /\ Len(users) < MaxUsers
             /\ users' = Append(users, NewUser(body, bcryptHash(body.password, salt)))
             /\ issued' = issued \cup {Len(users) + 1}
             /\ resp' = Response(route, req, 201, "", 0, TRUE,
                    [token |-> jwtSign(Len(users) + 1),
                     user |-> [id |-> Len(users) + 1, name |-> body.name,
                               email |-> body.email,
                               isAdmin |-> NewUser(body, Missing).isAdmin]])
             /\ UNCHANGED <<products, orders, bookings, contacts, subscribers>>

(* The two failure answers of login: no User has the email (line 290),    *)
(* the password does not match the stored hash (line 296).                 *)
loginNoUser == [status |-> 400, message |-> "Invalid credentials"]
(* A mismatch answer that tells the password check from the email check.   *)
loginNoMatchLeaky == [status |-> 401, message |-> "Wrong password"]
loginNoMatch == [status |-> 400, message |-> "Invalid credentials"]

LoginBodies == [email : Emails \cup {Missing}, password : Passwords \cup {Missing}]

(* POST /api/auth/login *)
Login(body, fault) ==
    LET route == "POST /api/auth/login"
        req == [body |-> body, fault |-> fault]
        found == FindByEmail(users, body.email)
        user == CHOOSE i \in found : TRUE
    IN  IF fault = "body"
        THEN /\ resp' = Response(route, req, 500, "storage fault", 0, TRUE, NoOut)
             /\ UNCHANGED <<db, issued>>
        ELSE IF found = {}
        THEN /\ resp' = Response(route, req, loginNoUser.status, loginNoUser.message,
                                 0, TRUE, NoOut)
             /\ UNCHANGED <<db, issued>>
        ELSE IF body.password = Missing
        THEN /\ resp' = Response(route, req, 500, "Illegal arguments", 0, TRUE, NoOut)
             /\ UNCHANGED <<db, issued>>
        ELSE IF ~bcryptCompare(body.password, users[user].password)
        THEN /\ resp' = Response(route, req, loginNoMatch.status, loginNoMatch.message,
                                 0, TRUE, NoOut)
             /\ UNCHANGED <<db, issued>>
        ELSE /\ issued' = issued \cup {user}
             /\ resp' = Response(route, req, 200, "", 0, TRUE,
                    [token |-> jwtSign(user), user |-> PublicUser(user)])
             /\ UNCHANGED db

(* GET /api/auth/me *)
Me(header, fault) ==
    LET route == "GET /api/auth/me"
        req == [header |-> header, fault |-> fault]
        g == Gates(header, fault, FALSE)
    IN  /\ resp' = IF ~g.ok THEN Denied(route, req, g)
                   ELSE Response(route, req, 200, "", g.user, TRUE, PublicUser(g.user))
        /\ UNCHANGED <<db, issued>>

(* A User document removed from the collection outside the API (the API    *)
(* has no user-delete route).                                              *)
StorageRemoveUser(id) ==
    /\ id \in Live(users)
    /\ users' = [users EXCEPT ![id] = NoRec]
    /\ UNCHANGED <<products, orders, bookings, contacts, subscribers, issued, resp>>

(* --------------------------- by-id lookups ---------------------------- *)
(* Model.findById / findByIdAndUpdate / findByIdAndDelete: id 0 stands for *)
(* a string that is no ObjectId (the query throws a CastError), any other  *)
(* id finds the live record or null.                                       *)
Lookup(coll, id) ==
    IF id = 0 THEN "cast" ELSE IF id \in Live(coll) THEN "found" ELSE "null"
(* findByIdAndUpdate(id, body, {new: true}): the body's schema fields are  *)
(* $set, the others stay; validators do not run.                           *)
Merge(rec, body) ==
    [f \in DOMAIN rec |-> IF f \in DOMAIN body THEN body[f] ELSE rec[f]]
(* new Model(body): schema fields taken from the body, defaults otherwise. *)
Construct(schema, body) ==
    [f \in (DOMAIN schema.defaults) \cup schema.required |->
        IF f \in DOMAIN body THEN body[f] ELSE schema.defaults[f]]
Valid(schema, body) == schema.required \subseteq DOMAIN body

(* --------------------------- product routes --------------------------- *)
productSchema == [required |-> {"name", "price"},
                  defaults |-> [inStock |-> TRUE]]
ProductBodies == {<<>>, [name |-> "milk", price |-> 1]}
ProductUpdates == {[price |-> 2], [inStock |-> FALSE]}

(* GET /api/products *)
ListProducts(fault) ==
    LET route == "GET /api/products"
        req == [fault |-> fault]
    IN  /\ resp' = IF fault = "body"
                   THEN Response(route, req, 500, "storage fault", 0, TRUE, NoOut)
                   ELSE Response(route, req, 200, "", 0, TRUE, [ids |-> Live(products)])
        /\ UNCHANGED <<db, issued>>

(* GET /api/products/:id *)
GetProduct(id, fault) ==
    LET route == "GET /api/products/:id"
        req == [id |-> id, fault |-> fault]
        found == Lookup(products, id)
    IN  /\ resp' = IF fault = "body" \/ found = "cast"
                   THEN Response(route, req, 500, "storage fault", 0, TRUE, NoOut)
                   ELSE IF found = "null"
                   THEN Response(route, req, 404, "Product not found", 0, TRUE, NoOut)
                   ELSE Response(route, req, 200, "", 0, TRUE, products[id])
        /\ UNCHANGED <<db, issued>>

(* POST /api/products *)
CreateProduct(header, body, fault) ==
    LET route == "POST /api/products"
        req == [header |-> header, body |-> body, fault |-> fault]
        g == Gates(header, fault, TRUE)
    IN  IF ~g.ok
        THEN /\ resp' = Denied(route, req, g)
             /\ UNCHANGED <<db, issued>>
        ELSE IF fault = "body"
        THEN /\ resp' = Response(route, req, 400, "storage fault", g.user, TRUE, NoOut)
             /\ UNCHANGED <<db, issued>>
        ELSE IF ~Valid(productSchema, body)
        THEN /\ resp' = Response(route, req, 400, "Product validation failed",
                                 g.user, TRUE, NoOut)
             /\ UNCHANGED <<db, issued>>
        ELSE /\ Len(products) < MaxProducts
             /\ products' = Append(products, Construct(productSchema, body))
             /\ resp' = Response(route, req, 201, "", g.user, TRUE,
                                 Construct(productSchema, body))
             /\ UNCHANGED <<users, orders, bookings, contacts, subscribers, issued>>

(* PUT /api/products/:id *)
UpdateProduct(header, id, body, fault) ==
    LET route == "PUT /api/products/:id"
        req == [header |-> header, id |-> id, body |-> body, fault |-> fault]
        g == Gates(header, fault, TRUE)
        found == Lookup(products, id)
    IN  IF ~g.ok
        THEN /\ resp' = Denied(route, req, g)
             /\ UNCHANGED <<db, issued>>
        ELSE IF fault = "body" \/ found = "cast"
        THEN /\ resp' = Response(route, req, 400,
                                 IF fault = "body" THEN "storage fault"
                                 ELSE "Cast to ObjectId failed", g.user, TRUE, NoOut)
             /\ UNCHANGED <<db, issued>>
        ELSE IF found = "null"
        THEN /\ resp' = Response(route, req, 404, "Product not found", g.user, TRUE, NoOut)
             /\ UNCHANGED <<db, issued>>
        ELSE /\ products' = [products EXCEPT ![id] = Merge(@, body)]
             /\ resp' = Response(route, req, 200, "", g.user, TRUE,
                                 Merge(products[id], body))
             /\ UNCHANGED <<users, orders, bookings, contacts, subscribers, issued>>

(* DELETE /api/products/:id *)
DeleteProduct(header, id, fault) ==
    LET route == "DELETE /api/products/:id"
        req == [header |-> header, id |-> id, fault |-> fault]
        g == Gates(header, fault, TRUE)
        found == Lookup(products, id)
    IN  IF ~g.ok
        THEN /\ resp' = Denied(route, req, g)
             /\ UNCHANGED <<db, issued>>
        ELSE IF fault = "body" \/ found = "cast"
        THEN /\ resp' = Response(route, req, 500,
                                 IF fault = "body" THEN "storage fault"
                                 ELSE "Cast to ObjectId failed", g.user, TRUE, NoOut)
             /\ UNCHANGED <<db, issued>>
        ELSE IF found = "null"
        THEN /\ resp' = Response(route, req, 404, "Product not found", g.user, TRUE, NoOut)
             /\ UNCHANGED <<db, issued>>
        ELSE /\ products' = [products EXCEPT ![id] = NoRec]
             /\ resp' = Response(route, req, 200, "Product deleted successfully",
                                 g.user, TRUE, NoOut)
             /\ UNCHANGED <<users, orders, bookings, contacts, subscribers, issued>>

(* ---------------------------- order routes ---------------------------- *)
orderSchema == [required |-> {"user", "totalAmount"},
                defaults |-> [products |-> <<>>, paymentStatus |-> "pending",
                              orderStatus |-> "processing"]]
LineItem(product, quantity) == [product |-> product, quantity |-> quantity]
(* Bodies of POST /api/orders: with or without the required fields, with   *)
(* or without a user reference of the client's choosing.                   *)
OrderBodies ==
    {core @@ u :
        core \in {<<>>, [totalAmount |-> 1]},
        u \in {<<>>, [user |-> 1], [user |-> 2]}}
(* Bodies of PUT /api/orders/:id: a payment status, or an owner: null, a   *)
(* stored User, or an id that may resolve to no User.                      *)
OwnerUpdates == {[user |-> 0], [user |-> 2], [user |-> 3]}
StatusUpdates == {[paymentStatus |-> "completed"]}

(* The spread written after the user key: a user key of the body wins.     *)
OrderDocBodyWins(body, user) == body @@ [user |-> user]
(* new Order({...req.body, user: req.user._id}): the later key wins.       *)
OrderDoc(body, user) == [user |-> user] @@ body

(* .populate('user', ...): the referenced User, or null (0) when the       *)
(* reference resolves to no stored User.                                   *)
PopulateUser(ref) == IF ref \in Live(users) THEN ref ELSE 0

(* POST /api/orders *)
CreateOrder(header, body, fault) ==
    LET route == "POST /api/orders"
        req == [header |-> header, body |-> body, fault |-> fault]
        g == Gates(header, fault, FALSE)
        doc == OrderDoc(body, g.user)
    IN  IF ~g.ok
        THEN /\ resp' = Denied(route, req, g)
             /\ UNCHANGED <<db, issued>>
        ELSE IF fault = "body"
        THEN /\ resp' = Response(route, req, 400, "storage fault", g.user, TRUE, NoOut)
             /\ UNCHANGED <<db, issued>>
        ELSE IF ~Valid(orderSchema, doc)
        THEN /\ resp' = Response(route, req, 400, "Order validation failed",
                                 g.user, TRUE, NoOut)
             /\ UNCHANGED <<db, issued>>
        ELSE /\ Len(orders) < MaxOrders
             /\ orders' = Append(orders, Construct(orderSchema, doc))
             /\ resp' = Response(route, req, 201, "", g.user, TRUE,
                                 [id |-> Len(orders) + 1,
                                  order |-> Construct(orderSchema, doc)])
             /\ UNCHANGED <<users, products, bookings, contacts, subscribers, issued>>

(* GET /api/orders *)
ListOrders(header, fault) ==
    LET route == "GET /api/orders"
        req == [header |-> header, fault |-> fault]
        g == Gates(header, fault, FALSE)
        matching == IF users[g.user].isAdmin THEN Live(orders)
                    ELSE {i \in Live(orders) : orders[i].user = g.user}
    IN  /\ resp' = IF ~g.ok THEN Denied(route, req, g)
                   ELSE IF fault = "body"
                   THEN Response(route, req, 500, "storage fault", g.user, TRUE, NoOut)
                   ELSE Response(route, req, 200, "", g.user, TRUE, [ids |-> matching])
        /\ UNCHANGED <<db, issued>>

(* The ownership check of GET /api/orders/:id on the populated order:      *)
(* !req.user.isAdmin && !order.user._id.equals(req.user._id); reading _id  *)
(* of a null order.user throws.                                            *)
OwnerCheck(requester, owner) ==
    IF users[requester].isAdmin THEN "ok"
    ELSE IF owner = 0 THEN "throw"
    ELSE IF owner # requester THEN "forbidden"
    ELSE "ok"

(* GET /api/orders/:id *)
GetOrder(header, id, fault) ==
    LET route == "GET /api/orders/:id"
        req == [header |-> header, id |-> id, fault |-> fault]
        g == Gates(header, fault, FALSE)
        found == Lookup(orders, id)
        check == OwnerCheck(g.user, PopulateUser(orders[id].user))
    IN  /\ resp' =
            IF ~g.ok THEN Denied(route, req, g)
            ELSE IF fault = "body" \/ found = "cast"
            THEN Response(route, req, 500,
                          IF fault = "body" THEN "storage fault"
                          ELSE "Cast to ObjectId failed", g.user, TRUE, NoOut)
            ELSE IF found = "null"
            THEN Response(route, req, 404, "Order not found", g.user, TRUE, NoOut)
            ELSE IF check = "throw"
            THEN Response(route, req, 500, "Cannot read property '_id' of null",
                          g.user, TRUE, NoOut)
            ELSE IF check = "forbidden"
            THEN Response(route, req, 403, "Not authorized", g.user, TRUE, NoOut)
            ELSE Response(route, req, 200, "", g.user, TRUE,
                          [id |-> id, order |-> orders[id]])
        /\ UNCHANGED <<db, issued>>

(* PUT /api/orders/:id *)
UpdateOrder(header, id, body, fault) ==
    LET route == "PUT /api/orders/:id"
        req == [header |-> header, id |-> id, body |-> body, fault |-> fault]
        g == Gates(header, fault, TRUE)
        found == Lookup(orders, id)
    IN  IF ~g.ok
        THEN /\ resp' = Denied(route, req, g)
             /\ UNCHANGED <<db, issued>>
        ELSE IF fault = "body" \/ found = "cast"
        THEN /\ resp' = Response(route, req, 400,
                                 IF fault = "body" THEN "storage fault"
                                 ELSE "Cast to ObjectId failed", g.user, TRUE, NoOut)
             /\ UNCHANGED <<db, issued>>
        ELSE IF found = "null"
        THEN /\ resp' = Response(route, req, 404, "Order not found", g.user, TRUE, NoOut)
             /\ UNCHANGED <<db, issued>>
        ELSE /\ orders' = [orders EXCEPT ![id] = Merge(@, body)]
             /\ resp' = Response(route, req, 200, "", g.user, TRUE,
                                 [id |-> id, order |-> Merge(orders[id], body)])
             /\ UNCHANGED <<users, products, bookings, contacts, subscribers, issued>>

(* ------------------------- tour booking routes ------------------------ *)
tourBookingSchema == [required |-> {"name"}, defaults |-> [status |-> "pending"]]
BookingBodies == {<<>>, [name |-> "bob"]}
BookingUpdates == {[status |-> "confirmed"]}

(* POST /api/tour-bookings *)
CreateBooking(body, fault) ==
    LET route == "POST /api/tour-bookings"
        req == [body |-> body, fault |-> fault]
    IN  IF fault = "body" \/ ~Valid(tourBookingSchema, body)
        THEN /\ resp' = Response(route, req, 400,
                                 IF fault = "body" THEN "storage fault"
                                 ELSE "TourBooking validation failed", 0, TRUE, NoOut)
             /\ UNCHANGED <<db, issued>>
        ELSE /\ Len(bookings) < MaxBookings
             /\ bookings' = Append(bookings, Construct(tourBookingSchema, body))
             /\ resp' = Response(route, req, 201, "", 0, TRUE,
                                 Construct(tourBookingSchema, body))
             /\ UNCHANGED <<users, products, orders, contacts, subscribers, issued>>

(* GET /api/tour-bookings *)
ListBookings(header, fault) ==
    LET route == "GET /api/tour-bookings"
        req == [header |-> header, fault |-> fault]
        g == Gates(header, fault, TRUE)
    IN  /\ resp' = IF ~g.ok THEN Denied(route, req, g)
                   ELSE IF fault = "body"
                   THEN Response(route, req, 500, "storage fault", g.user, TRUE, NoOut)
                   ELSE Response(route, req, 200, "", g.user, TRUE,
                                 [ids |-> Live(bookings)])
        /\ UNCHANGED <<db, issued>>

(* PUT /api/tour-bookings/:id *)
UpdateBooking(header, id, body, fault) ==
    LET route == "PUT /api/tour-bookings/:id"
        req == [header |-> header, id |-> id, body |-> body, fault |-> fault]
        g == Gates(header, fault, TRUE)
        found == Lookup(bookings, id)
    IN  IF ~g.ok
        THEN /\ resp' = Denied(route, req, g)
             /\ UNCHANGED <<db, issued>>
        ELSE IF fault = "body" \/ found = "cast"
        THEN /\ resp' = Response(route, req, 400,
                                 IF fault = "body" THEN "storage fault"
                                 ELSE "Cast to ObjectId failed", g.user, TRUE, NoOut)
             /\ UNCHANGED <<db, issued>>
        ELSE IF found = "null"
        THEN /\ resp' = Response(route, req, 404, "Booking not found", g.user, TRUE, NoOut)
             /\ UNCHANGED <<db, issued>>
        ELSE /\ bookings' = [bookings EXCEPT ![id] = Merge(@, body)]
             /\ resp' = Response(route, req, 200, "", g.user, TRUE,
                                 Merge(bookings[id], body))
             /\ UNCHANGED <<users, products, orders, contacts, subscribers, issued>>

(* ------------------------ contact message routes ---------------------- *)
contactMessageSchema == [required |-> {"subject"}, defaults |-> [read |-> FALSE]]
ContactBodies == {<<>>, [subject |-> "hello"]}
ContactUpdates == {[read |-> TRUE]}

(* POST /api/contact *)
CreateContact(body, fault) ==
    LET route == "POST /api/contact"
        req == [body |-> body, fault |-> fault]
    IN  IF fault = "body" \/ ~Valid(contactMessageSchema, body)
        THEN /\ resp' = Response(route, req, 400,
                                 IF fault = "body" THEN "storage fault"
                                 ELSE "ContactMessage validation failed", 0, TRUE, NoOut)
             /\ UNCHANGED <<db, issued>>
        ELSE /\ Len(contacts) < MaxContacts
             /\ contacts' = Append(contacts, Construct(contactMessageSchema, body))
             /\ resp' = Response(route, req, 201, "Message sent successfully",
                                 0, TRUE, NoOut)
             /\ UNCHANGED <<users, products, orders, bookings, subscribers, issued>>

(* GET /api/contact *)
ListContacts(header, fault) ==
    LET route == "GET /api/contact"
        req == [header |-> header, fault |-> fault]
        g == Gates(header, fault, TRUE)
    IN  /\ resp' = IF ~g.ok THEN Denied(route, req, g)
                   ELSE IF fault = "body"
                   THEN Response(route, req, 500, "storage fault", g.user, TRUE, NoOut)
                   ELSE Response(route, req, 200, "", g.user, TRUE,
                                 [ids |-> Live(contacts)])
        /\ UNCHANGED <<db, issued>>

(* PUT /api/contact/:id *)
UpdateContact(header, id, body, fault) ==
    LET route == "PUT /api/contact/:id"
        req == [header |-> header, id |-> id, body |-> body, fault |-> fault]
        g == Gates(header, fault, TRUE)
        found == Lookup(contacts, id)
    IN  IF ~g.ok
        THEN /\ resp' = Denied(route, req, g)
             /\ UNCHANGED <<db, issued>>
        ELSE IF fault = "body" \/ found = "cast"
        THEN /\ resp' = Response(route, req, 400,
                                 IF fault = "body" THEN "storage fault"
                                 ELSE "Cast to ObjectId failed", g.user, TRUE, NoOut)
             /\ UNCHANGED <<db, issued>>
        ELSE IF found = "null"
        THEN /\ resp' = Response(route, req, 404, "Message not found", g.user, TRUE, NoOut)
             /\ UNCHANGED <<db, issued>>
        ELSE /\ contacts' = [contacts EXCEPT ![id] = Merge(@, body)]
             /\ resp' = Response(route, req, 200, "", g.user, TRUE,
                                 Merge(contacts[id], body))
             /\ UNCHANGED <<users, products, orders, bookings, subscribers, issued>>

(* --------------------------- newsletter routes ------------------------ *)
newsletterSubscriberSchema == [required |-> {"email"}, defaults |-> [active |-> TRUE]]
NewsletterBodies == [email : Emails \cup {Missing}]
(* NewsletterSubscriber.countDocuments({active: true}) *)
subscriberCount == Cardinality({i \in Live(subscribers) : subscribers[i].active})
(* A reactivation that leaves the flag as it is.                           *)
ReactivateNot(subscriber) == subscriber
(* existingSubscriber.active = true *)
Reactivate(subscriber) == [subscriber EXCEPT !.active = TRUE]
(* subscriber.active = false *)
Deactivate(subscriber) == [subscriber EXCEPT !.active = FALSE]

(* POST /api/newsletter; out is the number of active subscribers the       *)
(* request met (the response itself carries a message only).               *)
Subscribe(body, fault) ==
    LET route == "POST /api/newsletter"
        req == [body |-> body, fault |-> fault]
        out == [activeBefore |-> subscriberCount]
        found == FindByEmail(subscribers, body.email)
        existing == CHOOSE i \in found : TRUE
    IN  IF fault = "body"
        THEN /\ resp' = Response(route, req, 400, "storage fault", 0, TRUE, out)
             /\ UNCHANGED <<db, issued>>
        ELSE IF found # {} /\ subscribers[existing].active
        THEN /\ resp' = Response(route, req, 400, "Email already subscribed", 0, TRUE, out)
             /\ UNCHANGED <<db, issued>>
        ELSE IF found # {}
        THEN /\ subscribers' = [subscribers EXCEPT ![existing] = Reactivate(@)]
             /\ resp' = Response(route, req, 200, "Subscription reactivated successfully",
                                 0, TRUE, out)
             /\ UNCHANGED <<users, products, orders, bookings, contacts, issued>>
        ELSE IF body.email = Missing
        THEN /\ resp' = Response(route, req, 400, "NewsletterSubscriber validation failed",
                                 0, TRUE, out)
             /\ UNCHANGED <<db, issued>>
        ELSE /\ subscribers' = Append(subscribers,
                    [email |-> body.email,
                     active |-> newsletterSubscriberSchema.defaults.active])
             /\ resp' = Response(route, req, 201, "Subscribed successfully", 0, TRUE, out)
             /\ UNCHANGED <<users, products, orders, bookings, contacts, issued>>

(* POST /api/newsletter/unsubscribe *)
Unsubscribe(body, fault) ==
    LET route == "POST /api/newsletter/unsubscribe"
        req == [body |-> body, fault |-> fault]
        out == [activeBefore |-> subscriberCount]
        found == FindByEmail(subscribers, body.email)
        subscriber == CHOOSE i \in found : TRUE
    IN  IF fault = "body"
        THEN /\ resp' = Response(route, req, 400, "storage fault", 0, TRUE, out)
             /\ UNCHANGED <<db, issued>>
        ELSE IF found = {}
        THEN /\ resp' = Response(route, req, 404, "Subscription not found", 0, TRUE, out)
             /\ UNCHANGED <<db, issued>>
        ELSE /\ subscribers' = [subscribers EXCEPT ![subscriber] = Deactivate(@)]
             /\ resp' = Response(route, req, 200, "Unsubscribed successfully", 0, TRUE, out)
             /\ UNCHANGED <<users, products, orders, bookings, contacts, issued>>

(* GET /api/newsletter/subscribers *)
ListSubscribers(header, fault) ==
    LET route == "GET /api/newsletter/subscribers"
        req == [header |-> header, fault |-> fault]
        g == Gates(header, fault, TRUE)
    IN  /\ resp' = IF ~g.ok THEN Denied(route, req, g)
                   ELSE IF fault = "body"
                   THEN Response(route, req, 500, "storage fault", g.user, TRUE, NoOut)
                   ELSE Response(route, req, 200, "", g.user, TRUE,
                            [ids |-> {i \in Live(subscribers) : subscribers[i].active}])
        /\ UNCHANGED <<db, issued>>

(* ------------------------ interleaved requests ------------------------ *)
(* register, subscribe and unsubscribe await their findOne and their save  *)
(* separately: between the two, other requests run.  A request of pending  *)
(* is past its findOne (pc = "save", with what the findOne returned: found *)
(* = the _id, 0 for null, active = the flag read) or answered (pc =        *)
(* "done", with the status and message sent).                              *)
Arrived(route, body, pc, found, active, status, message) ==
    [route |-> route, body |-> body, pc |-> pc, found |-> found,
     active |-> active, status |-> status, message |-> message]
Answered(route, body, status, message) ==
    Arrived(route, body, "done", 0, FALSE, status, message)
Answer(p, status, message) ==
    [pending EXCEPT ![p].pc = "done", ![p].status = status, ![p].message = message]
AtSave(route) ==
    {p \in DOMAIN pending : pending[p].route = route /\ pending[p].pc = "save"}

(* An index that rejects nothing.                                          *)
DuplicateKeyNever(coll, email) == FALSE
(* email: { unique: true } with useCreateIndex: the insert of a document   *)
(* whose email a stored document has fails with E11000.                    *)
DuplicateKey(coll, email) == FindByEmail(coll, email) # {}
E11000 == "E11000 duplicate key error"

RaceRegisterBodies ==
    {[name |-> "ann", email |-> "a@x.com", password |-> "pw1"],
     [name |-> "ann", email |-> "admin@x.com", password |-> "pw1"],
     [name |-> Missing, email |-> "a@x.com", password |-> "pw1"],
     [name |-> "ann", email |-> "a@x.com", password |-> Missing]}
RaceNewsletterBodies == {[email |-> "a@x.com"], [email |-> Missing]}

(* POST /api/auth/register up to the return of User.findOne *)
RegisterFindOne(body, fault) ==
    LET route == "POST /api/auth/register"
        req == [body |-> body, fault |-> fault]
        existing == FindByEmail(users, body.email)
    IN  /\ Len(pending) < MaxRequests
        /\ IF fault = "body"
           THEN /\ pending' = Append(pending, Answered(route, body, 400, "storage fault"))
                /\ resp' = Response(route, req, 400, "storage fault", 0, TRUE, NoOut)
           ELSE IF existing # {}
           THEN /\ pending' = Append(pending,
                        Answered(route, body, 400, "User already exists"))
                /\ resp' = Response(route, req, 400, "User already exists", 0, TRUE, NoOut)
           ELSE /\ pending' = Append(pending, Arrived(route, body, "save", 0, FALSE, 0, ""))
                /\ UNCHANGED resp
        /\ UNCHANGED <<db, issued>>

(* POST /api/auth/register from bcrypt.genSalt to the response *)
RegisterSave(p, salt, fault) ==
    LET route == "POST /api/auth/register"
        body == pending[p].body
        req == [body |-> body, fault |-> fault]
        invalid == body.name = Missing \/ body.email = Missing
        failure ==
            IF fault = "body" THEN "storage fault"
            ELSE IF body.password = Missing THEN "Illegal arguments"
            ELSE IF invalid THEN "User validation failed"
            ELSE IF DuplicateKey(users, body.email) THEN E11000
            ELSE ""
    IN  /\ p \in AtSave(route)
        /\ IF failure # ""
           THEN /\ pending' = Answer(p, 400, failure)
                /\ resp' = Response(route, req, 400, failure, 0, TRUE, NoOut)
                /\ UNCHANGED <<db, issued>>
           ELSE /\ Len(users) < MaxUsers
                /\ users' = Append(users,
                       NewUser(body, bcryptHash(body.password, salt)))
                /\ issued' = issued \cup {Len(users) + 1}
                /\ pending' = Answer(p, 201, "")
                /\ resp' = Response(route, req, 201, "", 0, TRUE,
                       [token |-> jwtSign(Len(users) + 1),
                        user |-> [id |-> Len(users) + 1, name |-> body.name,
                                  email |-> body.email,
                                  isAdmin |-> NewUser(body, Missing).isAdmin]])
                /\ UNCHANGED <<products, orders, bookings, contacts, subscribers>>

(* POST /api/newsletter up to the return of NewsletterSubscriber.findOne *)
SubscribeFindOne(body, fault) ==
    LET route == "POST /api/newsletter"
        req == [body |-> body, fault |-> fault]
        out == [activeBefore |-> subscriberCount]
        found == FindByEmail(subscribers, body.email)
        existing == CHOOSE i \in found : TRUE
    IN  /\ Len(pending) < MaxRequests
        /\ IF fault = "body"
           THEN /\ pending' = Append(pending, Answered(route, body, 400, "storage fault"))
                /\ resp' = Response(route, req, 400, "storage fault", 0, TRUE, out)
           ELSE IF found # {} /\ subscribers[existing].active
           THEN /\ pending' = Append(pending,
                        Answered(route, body, 400, "Email already subscribed"))
                /\ resp' = Response(route, req, 400, "Email already subscribed",
                                    0, TRUE, out)
           ELSE IF found # {}
           THEN /\ pending' = Append(pending,
                        Arrived(route, body, "save", existing, FALSE, 0, ""))
                /\ UNCHANGED resp
           ELSE /\ pending' = Append(pending, Arrived(route, body, "save", 0, FALSE, 0, ""))
                /\ UNCHANGED resp
        /\ UNCHANGED <<db, issued>>

(* POST /api/newsletter from the save (of the record found, reactivated,   *)
(* or of a new one) to the response                                        *)
SubscribeSave(p, fault) ==
    LET route == "POST /api/newsletter"
        body == pending[p].body
        req == [body |-> body, fault |-> fault]
        out == [activeBefore |-> subscriberCount]
        existing == pending[p].found
        failure ==
            IF fault = "body" THEN "storage fault"
            ELSE IF existing # 0 THEN ""
            ELSE IF body.email = Missing THEN "NewsletterSubscriber validation failed"
            ELSE IF DuplicateKey(subscribers, body.email) THEN E11000
            ELSE ""
    IN  /\ p \in AtSave(route)
        /\ IF failure # ""
           THEN /\ pending' = Answer(p, 400, failure)
                /\ resp' = Response(route, req, 400, failure, 0, TRUE, out)
                /\ UNCHANGED <<db, issued>>
           ELSE IF existing # 0
           THEN /\ subscribers' = [subscribers EXCEPT ![existing] = Reactivate(@)]
                /\ pending' = Answer(p, 200, "Subscription reactivated successfully")
                /\ resp' = Response(route, req, 200,
                                    "Subscription reactivated successfully", 0, TRUE, out)
                /\ UNCHANGED <<users, products, orders, bookings, contacts, issued>>
           ELSE /\ subscribers' = Append(subscribers,
                       [email |-> body.email,
                        active |-> newsletterSubscriberSchema.defaults.active])
                /\ pending' = Answer(p, 201, "Subscribed successfully")
                /\ resp' = Response(route, req, 201, "Subscribed successfully", 0, TRUE, out)
                /\ UNCHANGED <<users, products, orders, bookings, contacts, issued>>

(* POST /api/newsletter/unsubscribe up to the return of findOne *)
UnsubscribeFindOne(body, fault) ==
    LET route == "POST /api/newsletter/unsubscribe"
        req == [body |-> body, fault |-> fault]
        out == [activeBefore |-> subscriberCount]
        found == FindByEmail(subscribers, body.email)
        subscriber == CHOOSE i \in found : TRUE
    IN  /\ Len(pending) < MaxRequests
        /\ IF fault = "body"
           THEN /\ pending' = Append(pending, Answered(route, body, 400, "storage fault"))
                /\ resp' = Response(route, req, 400, "storage fault", 0, TRUE, out)
           ELSE IF found = {}
           THEN /\ pending' = Append(pending,
                        Answered(route, body, 404, "Subscription not found"))
                /\ resp' = Response(route, req, 404, "Subscription not found", 0, TRUE, out)
           ELSE /\ pending' = Append(pending,
                        Arrived(route, body, "save", subscriber,
                                subscribers[subscriber].active, 0, ""))
                /\ UNCHANGED resp
        /\ UNCHANGED <<db, issued>>

(* POST /api/newsletter/unsubscribe from subscriber.save() to the          *)
(* response; save() writes the paths that changed on the document read,    *)
(* so nothing when the flag read was false already.                        *)
UnsubscribeSave(p, fault) ==
    LET route == "POST /api/newsletter/unsubscribe"
        body == pending[p].body
        req == [body |-> body, fault |-> fault]
        out == [activeBefore |-> subscriberCount]
        subscriber == pending[p].found
    IN  /\ p \in AtSave(route)
        /\ IF fault = "body"
           THEN /\ pending' = Answer(p, 400, "storage fault")
                /\ resp' = Response(route, req, 400, "storage fault", 0, TRUE, out)
                /\ UNCHANGED <<db, issued>>
           ELSE /\ subscribers' =
                       IF pending[p].active
                       THEN [subscribers EXCEPT ![subscriber] = Deactivate(@)]
                       ELSE subscribers
                /\ pending' = Answer(p, 200, "Unsubscribed successfully")
                /\ resp' = Response(route, req, 200, "Unsubscribed successfully", 0, TRUE, out)
                /\ UNCHANGED <<users, products, orders, bookings, contacts, issued>>

(* ------------------------------ dashboard ----------------------------- *)
RecentLimit == 5
PopularLimit == 5

(* The revenue query without its paymentStatus filter.                     *)
allOrdersAnyStatus == SelectSeq(orders, LAMBDA o : o # NoRec)
(* Order.find({paymentStatus: 'completed'}) *)
allOrders == SelectSeq(orders, LAMBDA o : o # NoRec /\ o.paymentStatus = "completed")
(* allOrders.reduce((sum, order) => sum + order.totalAmount, 0) *)
RECURSIVE Reduce(_, _)
Reduce(list, sum) ==
    IF list = <<>> THEN sum ELSE Reduce(Tail(list), sum + Head(list).totalAmount)
totalRevenue == Reduce(allOrders, 0)

(* Order.find({}).sort({createdAt: -1}).limit(5): the newest orders first  *)
(* (ids grow with creation time).                                          *)
recentOrders ==
    [k \in 1..(IF Len(orders) < RecentLimit THEN Len(orders) ELSE RecentLimit) |->
        Len(orders) + 1 - k]

(* {$unwind: '$products'}: one document <<order, index>> per line item.    *)
Unwind == UNION {{<<i, k>> : k \in DOMAIN orders[i].products} : i \in Live(orders)}
UnwoundItem(d) == orders[d[1]].products[d[2]]
(* {$group: {_id: '$products.product', count: {$sum: '$products.quantity'}}} *)
GroupIds == {UnwoundItem(d).product : d \in Unwind}
RECURSIVE SumQuantity(_)
SumQuantity(docs) ==
    IF docs = {} THEN 0
    ELSE LET d == CHOOSE x \in docs : TRUE
         IN  UnwoundItem(d).quantity + SumQuantity(docs \ {d})
GroupCount(p) == SumQuantity({d \in Unwind : UnwoundItem(d).product = p})
(* {$sort: {count: -1}}, {$limit: 5}: the sort key is count alone, and the *)
(* $group stage emits its groups in no defined order, so groups of equal   *)
(* count come out in any order: every sequence the pipeline may return.    *)
RECURSIVE SortLimit(_, _)
SortLimit(groups, limit) ==
    IF limit = 0 \/ groups = {} THEN {<<>>}
    ELSE UNION {{<<p>> \o rest : rest \in SortLimit(groups \ {p}, limit - 1)} :
                p \in {q \in groups : \A r \in groups : GroupCount(r) <= GroupCount(q)}}
(* Product.populate(popularProducts, {path: '_id', select: 'name price'}): *)
(* ref is the product id the group was keyed by, product the document it   *)
(* resolves to (null when there is none).                                  *)
Populate(ranking) ==
    [k \in DOMAIN ranking |->
        [ref |-> ranking[k],
         product |-> IF ranking[k] \in Live(products)
                     THEN [name |-> products[ranking[k]].name,
                           price |-> products[ranking[k]].price]
                     ELSE NoRec,
         count |-> GroupCount(ranking[k])]]
(* ContactMessage.countDocuments({read: false}) *)
messageCount == Cardinality({i \in Live(contacts) : ~contacts[i].read})
(* TourBooking.countDocuments({status: 'pending'}) *)
tourBookingCount == Cardinality({i \in Live(bookings) : bookings[i].status = "pending"})

(* GET /api/admin/dashboard *)
Dashboard(header, fault) ==
    LET route == "GET /api/admin/dashboard"
        req == [header |-> header, fault |-> fault]
        g == Gates(header, fault, TRUE)
    IN  /\ IF ~g.ok THEN resp' = Denied(route, req, g)
           ELSE IF fault = "body"
           THEN resp' = Response(route, req, 500, "storage fault", g.user, TRUE, NoOut)
           ELSE \E ranking \in SortLimit(GroupIds, PopularLimit) :
                resp' = Response(route, req, 200, "", g.user, TRUE,
                    [counts |->
                        [products |-> Cardinality(Live(products)),
                         users |-> Cardinality(Live(users)),
                         orders |-> Cardinality(Live(orders)),
                         unreadMessages |-> messageCount,
                         pendingTours |-> tourBookingCount,
                         subscribers |-> subscriberCount],
                     revenue |-> [total |-> totalRevenue, orderCount |-> Len(allOrders)],
                     recentOrders |-> recentOrders,
                     popularProducts |-> Populate(ranking)])
        /\ UNCHANGED <<db, issued>>

(* --------------------------- specifications --------------------------- *)
AdminUser ==
    [name |-> "ann", email |-> "admin@x.com",
     password |-> bcryptHash("pw1", "s1"), isAdmin |-> TRUE]
NoResponse == Response("none", [fault |-> "none"], 0, "", 0, FALSE, NoOut)
(* pending is the list of the requests that arrived at a handler whose     *)
(* findOne and save are taken as separate steps, in order of arrival.      *)
NoRequests == <<>>

(* A fresh deployment: the only record is the seeded admin User.           *)
Init ==
    /\ users = <<AdminUser>>
    /\ products = <<>>
    /\ orders = <<>>
    /\ bookings = <<>>
    /\ contacts = <<>>
    /\ subscribers = <<>>
    /\ issued = {}
    /\ resp = NoResponse
    /\ pending = NoRequests

NextAuth ==
    \/ \E body \in RegisterBodies, salt \in Salts, fault \in BodyFaults :
            Register(body, salt, fault)
         /\ UNCHANGED pending
    \/ \E body \in LoginBodies, fault \in BodyFaults : Login(body, fault)
         /\ UNCHANGED pending
    \/ \E header \in Headers : \E fault \in Faults(header) : Me(header, fault)
         /\ UNCHANGED pending
    \/ \E id \in 1..MaxUsers : StorageRemoveUser(id)
         /\ UNCHANGED pending

SpecAuth == Init /\ [][NextAuth]_vars

(* Users registered and logged in: the admin and two regular users.        *)
RegularUser(email) ==
    [name |-> "ann", email |-> email,
     password |-> bcryptHash("pw2", "s1"), isAdmin |-> FALSE]
InitOrders ==
    /\ users = <<AdminUser, RegularUser("a@x.com"), RegularUser("b@x.com")>>
    /\ products = <<>>
    /\ orders = <<>>
    /\ bookings = <<>>
    /\ contacts = <<>>
    /\ subscribers = <<>>
    /\ issued = {1, 2, 3}
    /\ resp = NoResponse
    /\ pending = NoRequests

NextOrders ==
    \/ \E header \in Headers, body \in OrderBodies :
            \E fault \in Faults(header) : CreateOrder(header, body, fault)
         /\ UNCHANGED pending
    \/ \E header \in Headers : \E fault \in Faults(header) : ListOrders(header, fault)
         /\ UNCHANGED pending
    \/ \E header \in Headers, id \in 0..MaxOrders :
            \E fault \in Faults(header) : GetOrder(header, id, fault)
         /\ UNCHANGED pending
    \/ \E header \in Headers, id \in 0..MaxOrders, body \in OwnerUpdates :
            \E fault \in Faults(header) : UpdateOrder(header, id, body, fault)
         /\ UNCHANGED pending
    \/ \E id \in 1..MaxUsers : StorageRemoveUser(id)
         /\ UNCHANGED pending

SpecOrders == InitOrders /\ [][NextOrders]_vars

(* The admin-only routes, from a store that holds a record of every        *)
(* collection the public routes fill: an order of the regular user, a      *)
(* tour booking, a contact message and a subscriber.                       *)
InitAdmin ==
    /\ users = <<AdminUser, RegularUser("a@x.com")>>
    /\ products = <<>>
    /\ orders = <<Construct(orderSchema, OrderDoc([totalAmount |-> 1], 2))>>
    /\ bookings = <<Construct(tourBookingSchema, [name |-> "bob"])>>
    /\ contacts = <<Construct(contactMessageSchema, [subject |-> "hello"])>>
    /\ subscribers = <<[email |-> "a@x.com", active |-> TRUE]>>
    /\ issued = {1, 2}
    /\ resp = NoResponse
    /\ pending = NoRequests

NextAdmin ==
    \/ \E header \in Headers, body \in ProductBodies :
            \E fault \in Faults(header) : CreateProduct(header, body, fault)
         /\ UNCHANGED pending
    \/ \E header \in Headers, id \in 0..MaxProducts, body \in ProductUpdates :
            \E fault \in Faults(header) : UpdateProduct(header, id, body, fault)
         /\ UNCHANGED pending
    \/ \E header \in Headers, id \in 0..MaxProducts :
            \E fault \in Faults(header) : DeleteProduct(header, id, fault)
         /\ UNCHANGED pending
    \/ \E header \in Headers, id \in 0..MaxOrders, body \in StatusUpdates :
            \E fault \in Faults(header) : UpdateOrder(header, id, body, fault)
         /\ UNCHANGED pending
    \/ \E header \in Headers : \E fault \in Faults(header) : ListBookings(header, fault)
         /\ UNCHANGED pending
    \/ \E header \in Headers, id \in 0..MaxBookings, body \in BookingUpdates :
            \E fault \in Faults(header) : UpdateBooking(header, id, body, fault)
         /\ UNCHANGED pending
    \/ \E header \in Headers : \E fault \in Faults(header) : ListContacts(header, fault)
         /\ UNCHANGED pending
    \/ \E header \in Headers, id \in 0..MaxContacts, body \in ContactUpdates :
            \E fault \in Faults(header) : UpdateContact(header, id, body, fault)
         /\ UNCHANGED pending
    \/ \E header \in Headers : \E fault \in Faults(header) : ListSubscribers(header, fault)
         /\ UNCHANGED pending
    \/ \E header \in Headers : \E fault \in Faults(header) : Dashboard(header, fault)
         /\ UNCHANGED pending

SpecAdmin == InitAdmin /\ [][NextAdmin]_vars

(* The newsletter routes, from the fresh deployment.                       *)
NextNews ==
    \/ \E body \in NewsletterBodies, fault \in BodyFaults : Subscribe(body, fault)
         /\ UNCHANGED pending
    \/ \E body \in NewsletterBodies, fault \in BodyFaults : Unsubscribe(body, fault)
         /\ UNCHANGED pending

SpecNews == Init /\ [][NextNews]_vars

(* The dashboard over stored orders: the admin has logged in and placed    *)
(* up to MaxDashOrders orders through POST /api/orders, with line items    *)
(* over six product references (one more than PopularLimit), with equal    *)
(* and unequal totals, and with every payment status and amount.           *)
ProductRefs == {1, 2, 3, 4, 5, 6}
Ladder == [k \in ProductRefs |-> LineItem(k, 7 - k)]
DashBaskets ==
    {<<>>, Ladder, <<LineItem(1, 3), LineItem(2, 5), LineItem(1, 2)>>}
    \cup {<<LineItem(p, q)>> : p \in ProductRefs, q \in {1, 2}}
DashBodies ==
    {[totalAmount |-> 1, products |-> b] @@ s :
        b \in DashBaskets, s \in {<<>>, [paymentStatus |-> "completed"]}}
    \cup {[totalAmount |-> a] @@ s :
        a \in {0, 3, 4},
        s \in {<<>>, [paymentStatus |-> "completed"], [paymentStatus |-> "failed"]}}
DashOrders ==
    UNION {[1..n -> {Construct(orderSchema, OrderDoc(b, 1)) : b \in DashBodies}] :
           n \in 0..MaxDashOrders}
InitDash ==
    /\ users = <<AdminUser>>
    /\ products = <<[name |-> "milk", price |-> 1, inStock |-> TRUE]>>
    /\ orders \in DashOrders
    /\ bookings = <<>>
    /\ contacts = <<>>
    /\ subscribers = <<>>
    /\ issued = {1}
    /\ resp = NoResponse
    /\ pending = NoRequests

NextDash ==
    \E header \in Headers : \E fault \in Faults(header) :
        Dashboard(header, fault) /\ UNCHANGED pending

SpecDash == InitDash /\ [][NextDash]_vars

(* Register, subscribe and unsubscribe requests interleaved at their       *)
(* awaits, from the fresh deployment.                                      *)
NextRace ==
    \/ \E body \in RaceRegisterBodies, fault \in BodyFaults : RegisterFindOne(body, fault)
    \/ \E p \in 1..MaxRequests, salt \in Salts, fault \in BodyFaults :
            RegisterSave(p, salt, fault)
    \/ \E body \in RaceNewsletterBodies, fault \in BodyFaults : SubscribeFindOne(body, fault)
    \/ \E p \in 1..MaxRequests, fault \in BodyFaults : SubscribeSave(p, fault)
    \/ \E body \in RaceNewsletterBodies, fault \in BodyFaults :
            UnsubscribeFindOne(body, fault)
    \/ \E p \in 1..MaxRequests, fault \in BodyFaults : UnsubscribeSave(p, fault)

SpecRace == Init /\ [][NextRace]_vars

(* Every route, from a store without any User, with register bodies that  *)
(* all ask for the admin flag.                                             *)
EscalationBodies ==
    {[name |-> "ann", email |-> email, password |-> "pw1", isAdmin |-> TRUE] :
        email \in {"a@x.com", "b@x.com"}}
EscalationLogins == {[email |-> "a@x.com", password |-> pw] : pw \in Passwords}
InitNoAdmin ==
    /\ users = <<>>
    /\ products = <<>>
    /\ orders = <<>>
    /\ bookings = <<>>
    /\ contacts = <<>>
    /\ subscribers = <<>>
    /\ issued = {}
    /\ resp = NoResponse
    /\ pending = NoRequests

NextNoAdmin ==
    \/ \E body \in EscalationBodies, salt \in Salts, fault \in BodyFaults :
            Register(body, salt, fault)
         /\ UNCHANGED pending
    \/ \E body \in EscalationLogins, fault \in BodyFaults : Login(body, fault)
         /\ UNCHANGED pending
    \/ \E header \in Headers : \E fault \in Faults(header) : Me(header, fault)
         /\ UNCHANGED pending
    \/ \E header \in Headers : \E fault \in Faults(header) :
            CreateOrder(header, [totalAmount |-> 1], fault)
         /\ UNCHANGED pending
    \/ \E header \in Headers : \E fault \in Faults(header) : ListOrders(header, fault)
         /\ UNCHANGED pending
    \/ \E header \in Headers : \E fault \in Faults(header) : GetOrder(header, 1, fault)
         /\ UNCHANGED pending
    \/ \E header \in Headers : \E fault \in Faults(header) :
            CreateProduct(header, [name |-> "milk", price |-> 1], fault)
         /\ UNCHANGED pending
    \/ \E header \in Headers : \E fault \in Faults(header) :
            UpdateProduct(header, 1, [price |-> 2], fault)
         /\ UNCHANGED pending
    \/ \E header \in Headers : \E fault \in Faults(header) :
            DeleteProduct(header, 1, fault)
         /\ UNCHANGED pending
    \/ \E header \in Headers : \E fault \in Faults(header) :
            UpdateOrder(header, 1, [paymentStatus |-> "completed"], fault)
         /\ UNCHANGED pending
    \/ \E header \in Headers : \E fault \in Faults(header) : ListBookings(header, fault)
         /\ UNCHANGED pending
    \/ \E header \in Headers : \E fault \in Faults(header) :
            UpdateBooking(header, 1, [status |-> "confirmed"], fault)
         /\ UNCHANGED pending
    \/ \E header \in Headers : \E fault \in Faults(header) : ListContacts(header, fault)
         /\ UNCHANGED pending
    \/ \E header \in Headers : \E fault \in Faults(header) :
            UpdateContact(header, 1, [read |-> TRUE], fault)
         /\ UNCHANGED pending
    \/ \E header \in Headers : \E fault \in Faults(header) : ListSubscribers(header, fault)
         /\ UNCHANGED pending
    \/ \E header \in Headers : \E fault \in Faults(header) : Dashboard(header, fault)
         /\ UNCHANGED pending
    \/ \E body \in RaceNewsletterBodies, fault \in BodyFaults : Subscribe(body, fault)
         /\ UNCHANGED pending
    \/ \E body \in RaceNewsletterBodies, fault \in BodyFaults : Unsubscribe(body, fault)
         /\ UNCHANGED pending
    \/ \E fault \in BodyFaults : ListProducts(fault)
         /\ UNCHANGED pending
    \/ \E fault \in BodyFaults : GetProduct(1, fault)
         /\ UNCHANGED pending
    \/ \E fault \in BodyFaults : CreateBooking([name |-> "bob"], fault)
         /\ UNCHANGED pending
    \/ \E fault \in BodyFaults : CreateContact([subject |-> "hello"], fault)
         /\ UNCHANGED pending

SpecNoAdmin == InitNoAdmin /\ [][NextNoAdmin]_vars

(* Every route and the removal of a User, from the fresh deployment.       *)
Next ==
    \/ NextAuth
    \/ NextOrders
    \/ NextAdmin
    \/ NextNews
    \/ \E fault \in BodyFaults : ListProducts(fault)
         /\ UNCHANGED pending
    \/ \E id \in 0..MaxProducts, fault \in BodyFaults : GetProduct(id, fault)
         /\ UNCHANGED pending
    \/ \E body \in BookingBodies, fault \in BodyFaults : CreateBooking(body, fault)
         /\ UNCHANGED pending
    \/ \E body \in ContactBodies, fault \in BodyFaults : CreateContact(body, fault)
         /\ UNCHANGED pending

Spec == Init /\ [][Next]_vars

(* ------------------------------- claims ------------------------------- *)
(* A step of the storage alone; every other step handles one request.      *)
StorageStep == \E id \in 1..MaxUsers : StorageRemoveUser(id)
Unverifiable(header) ==
    ~header.present \/ header.token.sig # "server" \/ header.token.expired
(* The header is a token the server issued, unexpired, of a stored User.   *)
Authenticated(header) ==
    /\ ~Unverifiable(header)
    /\ header.token.userId \in Live(users)

(* C1: GET /api/orders/:id by an authenticated non-admin for an existing   *)
(* Order answers 403 without the order when another User owns it and 200   *)
(* with the order when the requester owns it, whatever has happened to the *)
(* owning User record or the order's owner before.                         *)
C1_OwnerOrForbidden ==
    [][(/\ ~StorageStep
        /\ resp'.route = "GET /api/orders/:id"
        /\ resp'.req.fault = "none"
        /\ Authenticated(resp'.req.header)
        /\ ~users[resp'.req.header.token.userId].isAdmin
        /\ resp'.req.id \in Live(orders))
       => /\ orders[resp'.req.id].user = resp'.req.header.token.userId
             => /\ resp'.status = 200
                /\ resp'.out = [id |-> resp'.req.id, order |-> orders[resp'.req.id]]
          /\ orders[resp'.req.id].user \notin {0, resp'.req.header.token.userId}
             => /\ resp'.status = 403
                /\ resp'.out = NoOut]_vars

AdminRoutes ==
    {"POST /api/products", "PUT /api/products/:id", "DELETE /api/products/:id",
     "PUT /api/orders/:id", "GET /api/tour-bookings", "PUT /api/tour-bookings/:id",
     "GET /api/contact", "PUT /api/contact/:id", "GET /api/newsletter/subscribers",
     "GET /api/admin/dashboard"}

(* C2: on every admin-only route a request without a verifiable token is   *)
(* answered 401 and a request authenticated as a non-admin User 403; in    *)
(* both cases the handler body does not run and no stored record changes.  *)
C2_AdminGate ==
    [][(~StorageStep /\ resp'.route \in AdminRoutes)
       => /\ Unverifiable(resp'.req.header)
             => (resp'.status = 401 /\ ~resp'.ran /\ db' = db)
          /\ (/\ Authenticated(resp'.req.header)
              /\ resp'.req.fault # "auth"
              /\ ~users[resp'.req.header.token.userId].isAdmin)
             => (resp'.status = 403 /\ ~resp'.ran /\ db' = db)]_vars
C2_Witness ==
    /\ resp.route = "PUT /api/orders/:id"
    /\ resp.status = 403
    /\ resp.req.header.token.userId = 2
    /\ resp.req.id \in Live(orders)

(* C3: a token issued by register or login for a User since removed is     *)
(* answered 401 by the authenticate gate on every later request: no        *)
(* handler runs, no user is attached, and the User stays removed.          *)
C3_RemovedUserRejected ==
    [][/\ \A u \in 1..Len(users) : u \notin Live(users) => u \notin Live(users')
       /\ (/\ ~StorageStep
           /\ "header" \in DOMAIN resp'.req
           /\ ~Unverifiable(resp'.req.header)
           /\ resp'.req.header.token.userId \in issued
           /\ resp'.req.header.token.userId \notin Live(users))
          => (resp'.status = 401 /\ ~resp'.ran /\ resp'.user = 0)]_vars
C3_Witness ==
    /\ resp.route = "GET /api/auth/me"
    /\ resp.status = 401
    /\ ~Unverifiable(resp.req.header)
    /\ resp.req.fault = "none"
    /\ resp.req.header.token.userId \in issued
    /\ resp.req.header.token.userId \notin Live(users)

(* C4: register with the email of a stored User answers 400, creates no    *)
(* User, issues no token and leaves every User record as it was; a login   *)
(* with a stored User's email and the password its hash was made from      *)
(* succeeds as that User.                                                  *)
C4_DuplicateEmail ==
    [][/\ (/\ ~StorageStep
           /\ resp'.route = "POST /api/auth/register"
           /\ \E i \in Live(users) : users[i].email = resp'.req.body.email)
          => /\ resp'.status = 400
             /\ resp'.out = NoOut
             /\ users' = users
             /\ issued' = issued
             /\ resp'.req.fault = "none" => resp'.message = "User already exists"
       /\ (/\ ~StorageStep
           /\ resp'.route = "POST /api/auth/login"
           /\ resp'.req.fault = "none")
          => \A i \in Live(users) :
                (/\ users[i].email = resp'.req.body.email
                 /\ \E salt \in Salts :
                        users[i].password = bcryptHash(resp'.req.body.password, salt))
                => (resp'.status = 200 /\ resp'.out.token.userId = i)]_vars
C4_Witness ==
    /\ resp.route = "POST /api/auth/register"
    /\ resp.message = "User already exists"
    /\ \E i \in Live(users) : i > 1 /\ users[i].email = resp.req.body.email

(* C5: a login with a known email and a wrong password and a login with an *)
(* email of no User get the same status and the same message and no        *)
(* token, and neither changes stored state.                                *)
C5_LoginIndistinguishable ==
    [][(/\ ~StorageStep
        /\ resp'.route = "POST /api/auth/login"
        /\ resp'.req.fault = "none"
        /\ \/ \A i \in Live(users) : users[i].email # resp'.req.body.email
           \/ /\ resp'.req.body.password \in Passwords
              /\ \E i \in Live(users) :
                    /\ users[i].email = resp'.req.body.email
                    /\ users[i].password.digest[2] # resp'.req.body.password)
       => /\ <<resp'.status, resp'.message, resp'.out>>
                = <<400, "Invalid credentials", NoOut>>
          /\ db' = db
          /\ issued' = issued]_vars
C5_Witness ==
    /\ resp.route = "POST /api/auth/login"
    /\ resp.status = 400
    /\ resp.req.body.password \in Passwords
    /\ \E i \in Live(users) :
            /\ users[i].email = resp.req.body.email
            /\ users[i].password.digest[2] # resp.req.body.password

SubscribeStep(email) ==
    /\ ~StorageStep
    /\ resp'.route = "POST /api/newsletter"
    /\ resp'.req.fault = "none"
    /\ resp'.req.body.email = email
(* The last request handled was an unsubscribe of the email that found     *)
(* its record.                                                             *)
Unsubscribed(email) ==
    /\ resp.route = "POST /api/newsletter/unsubscribe"
    /\ resp.status = 200
    /\ resp.req.body.email = email
(* What subscribe does for an unknown email and for an active one, and     *)
(* that a subscribe right after an unsubscribe reactivates the record.     *)
C6_SubscribeCases(email) ==
    /\ (SubscribeStep(email) /\ FindByEmail(subscribers, email) = {})
       => /\ resp'.status = 201
          /\ subscribers' = Append(subscribers, [email |-> email, active |-> TRUE])
    /\ (/\ SubscribeStep(email)
        /\ \E i \in Live(subscribers) :
                subscribers[i].email = email /\ subscribers[i].active)
       => /\ resp'.status = 400
          /\ resp'.message = "Email already subscribed"
          /\ db' = db
    /\ (SubscribeStep(email) /\ Unsubscribed(email))
       => /\ Len(subscribers') = Len(subscribers)
          /\ \A i \in Live(subscribers) :
                subscribers'[i] = IF subscribers[i].email = email
                                  THEN [email |-> email, active |-> TRUE]
                                  ELSE subscribers[i]
          /\ Cardinality(FindByEmail(subscribers', email)) = 1

(* C6 as stated: first subscribe 201 with one active record; subscribe     *)
(* while active fails and changes nothing; a subscribe that follows an     *)
(* unsubscribe reactivates the same record and the number of active        *)
(* subscribers is what it was before that unsubscribe.                     *)
C6_CountAsBeforeUnsubscribe ==
    [][\A email \in Emails :
        /\ C6_SubscribeCases(email)
        /\ (SubscribeStep(email) /\ Unsubscribed(email))
           => subscriberCount' = resp.out.activeBefore]_vars

(* C6 amended: as C6, but the number of active subscribers after the       *)
(* resubscribe equals the number before the unsubscribe only if that       *)
(* unsubscribe met an active record; an unsubscribe of a record already    *)
(* inactive changed nothing, and the resubscribe ends one above it.        *)
C6_CountAsBeforeActiveUnsubscribe ==
    [][\A email \in Emails :
        /\ C6_SubscribeCases(email)
        /\ (SubscribeStep(email) /\ Unsubscribed(email))
           => subscriberCount' =
                IF resp.out.activeBefore = subscriberCount + 1
                THEN resp.out.activeBefore
                ELSE resp.out.activeBefore + 1]_vars
C6_Witness ==
    /\ resp.route = "POST /api/newsletter"
    /\ resp.message = "Subscription reactivated successfully"
    /\ Len(subscribers) >= 2
    /\ subscriberCount = resp.out.activeBefore + 1

DashboardStep ==
    /\ ~StorageStep
    /\ resp'.route = "GET /api/admin/dashboard"
    /\ resp'.status = 200
RECURSIVE AmountOf(_)
AmountOf(ids) ==
    IF ids = {} THEN 0
    ELSE LET i == CHOOSE x \in ids : TRUE
         IN  orders[i].totalAmount + AmountOf(ids \ {i})

(* C7: the dashboard's revenue total is the sum of totalAmount over the    *)
(* Orders whose paymentStatus is "completed" and no others: 0 when none    *)
(* is completed.                                                           *)
C7_RevenueOfCompleted ==
    [][DashboardStep
       => resp'.out.revenue.total =
            AmountOf({i \in Live(orders) : orders[i].paymentStatus = "completed"})]_vars
C7_Witness ==
    /\ resp.route = "GET /api/admin/dashboard"
    /\ resp.status = 200
    /\ resp.out.revenue.total > 0
    /\ \E i \in Live(orders) :
            orders[i].paymentStatus = "failed" /\ orders[i].totalAmount > 0
    /\ \E i \in Live(orders) :
            orders[i].paymentStatus = "completed" /\ orders[i].totalAmount > 0

(* The total quantity of a product over every line item of every Order.    *)
RECURSIVE QuantityIn(_, _)
QuantityIn(items, p) ==
    IF items = <<>> THEN 0
    ELSE (IF Head(items).product = p THEN Head(items).quantity ELSE 0)
         + QuantityIn(Tail(items), p)
RECURSIVE QuantityUpTo(_, _)
QuantityUpTo(n, p) ==
    IF n = 0 THEN 0 ELSE QuantityIn(orders[n].products, p) + QuantityUpTo(n - 1, p)
Ordered(p) == QuantityUpTo(Len(orders), p)
(* The list is a top-5 ranking by total ordered quantity.                  *)
C8_Ranking(popular) ==
    /\ Len(popular) <= 5
    /\ \A k \in DOMAIN popular : popular[k].count = Ordered(popular[k].ref)
    /\ \A k \in DOMAIN popular : popular[k].count > 0
    /\ \A j, k \in DOMAIN popular : j < k => popular[j].ref # popular[k].ref
    /\ \A j, k \in DOMAIN popular : j < k => popular[j].count >= popular[k].count
    /\ \A p \in ProductRefs :
            (\A k \in DOMAIN popular : popular[k].ref # p)
            => /\ \A k \in DOMAIN popular : Ordered(p) <= popular[k].count
               /\ Ordered(p) > 0 => Len(popular) = 5

(* C8: the dashboard's popular products are at most 5, each with its total *)
(* quantity over all line items of all Orders, in non-increasing order of  *)
(* that total, no omitted product above a listed one; and two dashboard    *)
(* requests over the same stored Orders list them in the same order.       *)
C8_PopularDeterministic ==
    [][DashboardStep
       => /\ C8_Ranking(resp'.out.popularProducts)
          /\ (/\ resp.route = "GET /api/admin/dashboard"
              /\ resp.status = 200
              /\ orders' = orders)
             => resp'.out.popularProducts = resp.out.popularProducts]_vars

(* C9: every response carries the status of its failure class: a missing   *)
(* required field or a taken email 400, a missing or unverifiable token    *)
(* 401, and a storage or runtime fault 500, also in register.              *)
C9_StatusTaxonomy ==
    [][~StorageStep
       => /\ resp'.req.fault # "none" => resp'.status = 500
          /\ (/\ resp'.route = "POST /api/auth/register"
              /\ resp'.req.fault = "none"
              /\ \/ Missing \in {resp'.req.body.name, resp'.req.body.email,
                                 resp'.req.body.password}
                 \/ \E i \in Live(users) : users[i].email = resp'.req.body.email)
             => resp'.status = 400
          /\ ("header" \in DOMAIN resp'.req /\ Unverifiable(resp'.req.header))
             => resp'.status = 401]_vars

(* C10: an Order created through POST /api/orders is stored with the       *)
(* authenticated requester as its owner whatever user reference the body   *)
(* carries, and a request that is not authenticated creates no Order.      *)
C10_OwnerIsRequester ==
    [][(~StorageStep /\ resp'.route = "POST /api/orders")
       => /\ orders' # orders
             => /\ Authenticated(resp'.req.header)
                /\ resp'.status = 201
                /\ Len(orders') = Len(orders) + 1
                /\ SubSeq(orders', 1, Len(orders)) = orders
                /\ orders'[Len(orders')].user = resp'.req.header.token.userId
          /\ ~Authenticated(resp'.req.header)
             => (orders' = orders /\ resp'.status = 401)]_vars
C10_Witness ==
    /\ resp.route = "POST /api/orders"
    /\ resp.status = 201
    /\ "user" \in DOMAIN resp.req.body
    /\ resp.req.body.user # resp.req.header.token.userId
    /\ orders[resp.out.id].user = resp.req.header.token.userId

(* The register requests answered 201 for the email.                       *)
Registered(email) ==
    {p \in DOMAIN pending :
        /\ pending[p].route = "POST /api/auth/register"
        /\ pending[p].body.email = email
        /\ pending[p].status = 201}
(* The requests of the route that found no record of the email and got to  *)
(* their save with the answer given: requests whose findOne all ran before *)
(* the first of their saves.                                               *)
Raced(route, email, status, message) ==
    {p \in DOMAIN pending :
        /\ pending[p].route = route
        /\ pending[p].body.email = email
        /\ pending[p].found = 0
        /\ pending[p].pc = "done"
        /\ pending[p].status = status
        /\ pending[p].message = message}

(* C11: however register, subscribe and unsubscribe requests interleave at *)
(* their findOne and save steps, no two stored Users and no two stored     *)
(* NewsletterSubscribers have the same email, and at most one register     *)
(* request per email is answered 201 with a token.                         *)
C11_UniqueUnderInterleaving ==
    \A email \in Emails :
        /\ Cardinality(FindByEmail(users, email)) <= 1
        /\ Cardinality(FindByEmail(subscribers, email)) <= 1
        /\ Cardinality(Registered(email)) <= 1
(* Two register requests for a new email both found no User; one was       *)
(* answered 201, the save of the other failed on the index.                *)
C11_Witness ==
    /\ Raced("POST /api/auth/register", "a@x.com", 201, "") # {}
    /\ Raced("POST /api/auth/register", "a@x.com", 400, E11000) # {}
    /\ Cardinality(FindByEmail(users, "a@x.com")) = 1


(* C12: from a store without an admin User, whatever the requests and      *)
(* whatever their bodies, every step leaves the stored Users without an    *)
(* admin, changes the User collection only by register appending one User  *)
(* whose admin flag is false, and answers every request on an admin-only   *)
(* route 401 or 403 without running its handler or changing a record.      *)
C12_NoAdminEscalation ==
    [][/\ \A id \in Live(users') : ~users'[id].isAdmin
       /\ users' # users
            => /\ resp'.route = "POST /api/auth/register"
               /\ resp'.status = 201
               /\ Len(users') = Len(users) + 1
               /\ SubSeq(users', 1, Len(users)) = users
               /\ users'[Len(users')].isAdmin = FALSE
               /\ resp'.out.user.isAdmin = FALSE
       /\ resp'.route \in AdminRoutes
            => /\ resp'.status \in {401, 403}
               /\ ~resp'.ran
               /\ UNCHANGED db]_vars
(* Users who registered with isAdmin: true in the body are stored, and one *)
(* of them, authenticated by the token issued, is refused the dashboard.   *)
C12_Witness ==
    /\ Cardinality(Live(users)) = Cardinality(EscalationBodies)
    /\ resp.route = "GET /api/admin/dashboard"
    /\ resp.status = 403
    /\ resp.user \in Live(users)
    /\ resp.req.header = Bearer(jwtSign(resp.user))

====
